---- MODULE Spec2Model ----
(***************************************************************************)
(* gh-claude-tools: the diff truncation policies, the authentication       *)
(* resolver, the AI content generator and the workflow orchestrators.      *)
(*                                                                         *)
(* A string is held as the sequence of its lines, that is as the value of  *)
(* s.split('\n'): a non-empty sequence whose lines hold no newline.  A     *)
(* line is a record [kind, len, id]: kind is what startsWith() can tell    *)
(* about it, len its length in characters, id stands for the rest of its   *)
(* text (two lines are the same text iff the records are equal).           *)
(***************************************************************************)
EXTENDS Integers, Sequences, FiniteSets, TLC

VARIABLES
  diff,        \* the diff given to the truncation policies
  commitOut,   \* limitDiffForCommit(diff), None before the call
  prOut,       \* limitDiffForPR(diff), None before the call
  stack,       \* the running processes, the child last: [prog, pc, ...]
  cmd,         \* the command the user ran
  exitCode,    \* its exit status, NoExit while it runs
  argv,        \* process.argv[2] of the command the user ran
  envKey,      \* process.env.ANTHROPIC_API_KEY
  gitWorks,    \* git runs here (it is installed and this is a work tree)
  repo,        \* [unstaged, staged, untracked]: are there such changes
  cfgFile,     \* ~/.gh-claude-tools/config.json: [exists, text, mode, ours]
  tmpFiles,    \* the temporary body files now in os.tmpdir()
  calls,       \* the git / gh / claude commands issued, the lines read at
               \* the prompt and the writes of the config file so far, in order
  authTrace,   \* what the latest getAnthropicApiKey call consulted and did
  lastError,   \* the error executeClaudeCommand threw last, NoError if none
  reported     \* the outcome lines printed so far

diffVars == <<diff, commitOut, prOut>>

procVars == <<stack, cmd, exitCode, argv, envKey, gitWorks, repo, cfgFile, tmpFiles,
              calls, authTrace, lastError, reported>>

(***************************************************************************)
(* Bounds of the diff inputs.                                              *)
(***************************************************************************)
MaxBlocks == 3

(***************************************************************************)
(* Strings as line sequences.                                              *)
(***************************************************************************)
Min(a, b) == IF a <= b THEN a ELSE b

Line(k, n, i) == [kind |-> k, len |-> n, id |-> i]

\* the empty line; <<EmptyLine>> is the empty string
EmptyLine == Line("ctx", 0, 0)

\* length of the prefix that makes a line of kind k the kind it is
PrefixLen(k) ==
  CASE k = "git" -> 10     \* 'diff --git'
    [] k = "idx" -> 6      \* 'index '
    [] k = "ppp" -> 3      \* '+++'
    [] k = "mmm" -> 3      \* '---'
    [] k = "add" -> 1      \* '+'
    [] k = "del" -> 1      \* '-'
    [] OTHER     -> 0

\* line.startsWith('diff --git')
StartsWithDiffGit(l) == l.kind = "git"
\* line.startsWith('+++') || line.startsWith('---')
StartsWithPPPorMMM(l) == l.kind \in {"ppp", "mmm"}
\* line.startsWith('index ')
StartsWithIndex(l) == l.kind = "idx"
\* line.startsWith('+') || line.startsWith('-'): '+++' and '---' lines too
StartsWithPlusOrMinus(l) == l.kind \in {"add", "del", "ppp", "mmm"}

\* the characters of lines lo..hi of s (halving keeps the evaluation shallow)
RECURSIVE SumLen(_, _, _)
SumLen(s, lo, hi) ==
  IF lo > hi THEN 0
  ELSE IF lo = hi THEN s[lo].len
  ELSE LET mid == (lo + hi) \div 2
       IN  SumLen(s, lo, mid) + SumLen(s, mid + 1, hi)

\* s.length: the characters of the lines and one newline between two lines
StrLen(s) == SumLen(s, 1, Len(s)) + Len(s) - 1

\* lines.join('\n') as a string; [].join is the empty string
Join(ls) == IF ls = <<>> THEN <<EmptyLine>> ELSE ls

\* the first n characters of one line
Cut(l, n) ==
  IF n >= l.len THEN l
  ELSE IF n = 0 THEN EmptyLine
  ELSE IF n >= PrefixLen(l.kind) THEN Line(l.kind, n, l.id)
  ELSE IF l.kind = "ppp" THEN Line("add", n, l.id)
  ELSE IF l.kind = "mmm" THEN Line("del", n, l.id)
  ELSE Line("ctx", n, l.id)

\* the first n characters of lines lo..hi of s, as lines
RECURSIVE SubstringOf(_, _, _, _)
SubstringOf(s, lo, hi, n) ==
  IF lo = hi THEN <<Cut(s[lo], n)>>
  ELSE LET mid == (lo + hi) \div 2
           leftLen == SumLen(s, lo, mid) + (mid - lo)
       IN  IF n <= leftLen THEN SubstringOf(s, lo, mid, n)
           ELSE SubSeq(s, lo, mid) \o SubstringOf(s, mid + 1, hi, n - leftLen - 1)

\* s.substring(0, n)
Substring(s, n) == SubstringOf(s, 1, Len(s), n)

\* list.slice(0, n)
Slice(ls, n) == SubSeq(ls, 1, Min(n, Len(ls)))

\* list.slice(n)
SliceFrom(ls, n) == SubSeq(ls, n + 1, Len(ls))

(***************************************************************************)
(* limitDiffForCommit                                                      *)
(***************************************************************************)
CommitMaxChars == 15000
CommitMaxChangeLines == 200

\* '[diff truncated due to size]'
CommitMarker == Line("ctx", 28, -1)

\* a header test that forgets the '---' lines
IsCommitFileHeader_NoMinus(l) == StartsWithDiffGit(l) \/ l.kind = "ppp"

IsCommitFileHeader(l) == StartsWithDiffGit(l) \/ StartsWithPPPorMMM(l)

\* the policy with the first test as diff.length < maxChars
limitDiffForCommit_StrictLess(d) ==
  IF StrLen(d) < CommitMaxChars THEN d
  ELSE
    LET limitedDiff ==
          Join(SelectSeq(d, IsCommitFileHeader)
                 \o Slice(SelectSeq(d, StartsWithPlusOrMinus), CommitMaxChangeLines))
    IN  IF StrLen(limitedDiff) <= CommitMaxChars THEN limitedDiff
        ELSE Substring(d, CommitMaxChars) \o <<EmptyLine, CommitMarker>>

limitDiffForCommit(d) ==
  IF StrLen(d) <= CommitMaxChars THEN d
  ELSE
    LET fileHeaders == SelectSeq(d, IsCommitFileHeader)
        changeLines == SelectSeq(d, StartsWithPlusOrMinus)
        limitedLines == fileHeaders \o Slice(changeLines, CommitMaxChangeLines)
        limitedDiff == Join(limitedLines)
    IN  IF StrLen(limitedDiff) <= CommitMaxChars THEN limitedDiff
        \* s + '\n\n' + marker: an empty line and the marker line follow s
        ELSE Substring(d, CommitMaxChars) \o <<EmptyLine, CommitMarker>>

(***************************************************************************)
(* limitDiffForPR                                                          *)
(***************************************************************************)
PRMaxChars == 30000
PRSimpleTruncationOver == 100000
PRMaxLinesPerFile == 20

\* '[Diff truncated - PR contains additional changes]'
PRMarker == Line("ctx", 49, -2)

IsPRFileHeader(l) ==
  StartsWithDiffGit(l) \/ StartsWithPPPorMMM(l) \/ StartsWithIndex(l)

\* changesByFile is an object: its keys keep the order of first insertion
KeyIndex(m, key) ==
  IF \E i \in 1..Len(m) : m[i].file = key
  THEN CHOOSE i \in 1..Len(m) : m[i].file = key
  ELSE 0

\* changesByFile[currentFile] = []
ResetKey(m, key) ==
  IF KeyIndex(m, key) = 0 THEN Append(m, [file |-> key, changes |-> <<>>])
  ELSE [m EXCEPT ![KeyIndex(m, key)].changes = <<>>]

\* the turns of the loop without the limit of lines per file
PushChanges_NoLimit(m, key, ls) ==
  [m EXCEPT ![KeyIndex(m, key)].changes = @ \o ls]

\* the turns of the loop that push lines ls, in order, under key: each is
\* if (changesByFile[currentFile].length < 20) changesByFile[currentFile].push(line)
PushChanges(m, key, ls) ==
  [m EXCEPT ![KeyIndex(m, key)].changes = Slice(@ \o ls, PRMaxLinesPerFile)]

\* the index of the first 'diff --git' line after line i, Len(d) + 1 if none
NextDiffGit(d, i) ==
  LET later == {j \in (i + 1)..Len(d) : StartsWithDiffGit(d[j])}
  IN  IF later = {} THEN Len(d) + 1
      ELSE CHOOSE j \in later : \A k \in later : j <= k

\* the loop over the lines from the 'diff --git' line at i on, taken a file
\* at a time: line i sets currentFile and resets its entry, and the lines up
\* to the next 'diff --git' line are pushed under it when they start with
\* '+' or '-'
RECURSIVE GroupFrom(_, _, _)
GroupFrom(d, i, m) ==
  IF i > Len(d) THEN m
  ELSE LET next == NextDiffGit(d, i)
           currentFile == d[i]
           changes == SelectSeq(SubSeq(d, i + 1, next - 1), StartsWithPlusOrMinus)
       IN  GroupFrom(d, next, PushChanges(ResetKey(m, currentFile), currentFile, changes))

\* the lines before the first 'diff --git' line are passed over: currentFile
\* is '' there
GroupByFile(d) == GroupFrom(d, NextDiffGit(d, 0), <<>>)

\* the lines of `${file}\n${changes.join('\n')}\n`, the section less its
\* leading newline
SectionLines(e) == <<e.file>> \o Join(e.changes) \o <<EmptyLine>>

\* section.length
SectionLength(e) == 1 + StrLen(SectionLines(e))

\* the loop over Object.entries(changesByFile); acc + '\n' + x is acc
\* followed by the lines of x
RECURSIVE AddSections(_, _, _, _)
AddSections(m, i, acc, currentLength) ==
  IF i > Len(m) THEN acc
  ELSE IF currentLength + SectionLength(m[i]) > PRMaxChars THEN acc
  ELSE AddSections(m, i + 1, acc \o SectionLines(m[i]),
                   currentLength + SectionLength(m[i]))

\* the policy without the simple truncation of very large diffs
limitDiffForPR_AlwaysStructured(d) ==
  IF StrLen(d) <= PRMaxChars THEN d
  ELSE AddSections(GroupByFile(d), 1,
                   Join(SelectSeq(d, IsPRFileHeader)) \o <<EmptyLine, EmptyLine>>,
                   StrLen(Join(SelectSeq(d, IsPRFileHeader))) + 2)
         \o <<EmptyLine, PRMarker>>

limitDiffForPR(d) ==
  IF StrLen(d) <= PRMaxChars THEN d
  ELSE IF StrLen(d) > PRSimpleTruncationOver
       THEN Substring(d, PRMaxChars) \o <<EmptyLine, PRMarker>>
  ELSE
    LET fileHeaders == SelectSeq(d, IsPRFileHeader)
        changesByFile == GroupByFile(d)
        \* fileHeaders.join('\n') + '\n\n'
        start == Join(fileHeaders) \o <<EmptyLine, EmptyLine>>
        limitedDiff == AddSections(changesByFile, 1, start, StrLen(start))
    IN  limitedDiff \o <<EmptyLine, PRMarker>>

(***************************************************************************)
(* The diffs the policies are applied to: up to MaxBlocks blocks, a block  *)
(* being the header lines of a file or a run of body lines.                *)
(***************************************************************************)
Files == {1, 2}

Bodies == {"adds25", "dels201", "ctxBig", "wide", "line15k", "line30k", "line100k"}

Blocks == [type : {"header"}, file : Files] \cup [type : Bodies]

Run(k, n, count, base) == [i \in 1..count |-> Line(k, n, base + i)]

\* the lines of block b, the b-th block having the ids above base
BlockLines(b, base) ==
  CASE b.type = "header" ->
         << Line("git", 40, b.file), Line("idx", 30, b.file),
            Line("mmm", 20, b.file), Line("ppp", 20, b.file) >>
    [] b.type = "adds25"   -> Run("add", 60, 25, base)
    [] b.type = "dels201"  -> Run("del", 10, 201, base)
    [] b.type = "ctxBig"   -> Run("ctx", 100, 160, base)
    [] b.type = "wide"     -> Run("add", 16000, 2, base)
    [] b.type = "line15k"  -> Run("ctx", 15000, 1, base)
    [] b.type = "line30k"  -> Run("ctx", 30000, 1, base)
    [] b.type = "line100k" -> Run("ctx", 100000, 1, base)

RECURSIVE Expand(_, _)
Expand(bs, i) ==
  IF i > Len(bs) THEN <<>>
  ELSE BlockLines(bs[i], 1000 * i) \o Expand(bs, i + 1)

BlockSeqs == UNION {[1..n -> Blocks] : n \in 1..MaxBlocks}

\* not yet computed
None == <<>>


(***************************************************************************)
(* Values of the processes.  A string of the key, the prompt answer and    *)
(* the AI output is the sequence of its characters.                        *)
(***************************************************************************)
\* undefined and null, told from every string by a token no string holds
Undefined == <<"undefined">>
Null == <<"null">>
NoExit == 0 - 1
\* new Error(text): the text of the message and the number of seconds it
\* names, 0 when it names none
Error(text, seconds) == [text |-> text, seconds |-> seconds]

NoError == Error("none", 0)

\* a string, undefined or null in a condition: undefined, null and '' are falsy
Truthy(v) == v /= Undefined /\ v /= Null /\ v /= <<>>

IsSpace(c) == c \in {" ", "\n"}

\* the line taken as it was typed
Trim_None(s) == s

\* s.trim()
RECURSIVE TrimStart(_)
TrimStart(s) ==
  IF s /= <<>> /\ IsSpace(Head(s)) THEN TrimStart(Tail(s)) ELSE s

RECURSIVE TrimEnd(_)
TrimEnd(s) ==
  IF s /= <<>> /\ IsSpace(s[Len(s)]) THEN TrimEnd(SubSeq(s, 1, Len(s) - 1)) ELSE s

Trim(s) == TrimEnd(TrimStart(s))

(***************************************************************************)
(* The process stack.                                                      *)
(***************************************************************************)
NoAuth == [method |-> "none", key |-> Null]

NewProcess(prog) ==
  [prog |-> prog, pc |-> "start", childOk |-> FALSE, existingPR |-> FALSE,
   auth |-> NoAuth, apiKey |-> <<>>, content |-> <<>>]

Top == stack[Len(stack)]

At(prog, pc) == stack /= <<>> /\ Top.prog = prog /\ Top.pc = pc

AtPc(pc) == stack /= <<>> /\ Top.pc = pc

Goto(pc) == stack' = [stack EXCEPT ![Len(stack)].pc = pc]

\* execStream resolving true whatever the child's exit code
ExitWith_IgnoreChildCode(code) ==
  IF Len(stack) = 1
  THEN /\ stack' = <<>>
       /\ exitCode' = code
  ELSE /\ stack' = [SubSeq(stack, 1, Len(stack) - 1) EXCEPT
                      ![Len(stack) - 1].pc = "childDone",
                      ![Len(stack) - 1].childOk = TRUE]
       /\ UNCHANGED exitCode

\* process.exit(code), and the end of main with code 0: the parent's
\* execStream resolves true iff the child's exit code is 0
ExitWith(code) ==
  IF Len(stack) = 1
  THEN /\ stack' = <<>>
       /\ exitCode' = code
  ELSE /\ stack' = [SubSeq(stack, 1, Len(stack) - 1) EXCEPT
                      ![Len(stack) - 1].pc = "childDone",
                      ![Len(stack) - 1].childOk = (code = 0)]
       /\ UNCHANGED exitCode

\* execStream(`node "${path}"`, { throwOnError: false })
Spawn(prog) ==
  stack' = [stack EXCEPT ![Len(stack)].pc = "child"] \o <<NewProcess(prog)>>

Call(tool, op, arg) == [tool |-> tool, op |-> op, arg |-> arg]

Issue(cs) == calls' = calls \o cs

Report(line) == reported' = reported \cup {line}

(***************************************************************************)
(* getAnthropicApiKey                                                      *)
(***************************************************************************)
ConfigKeyField == "anthropicApiKey"

\* JSON.stringify({ anthropicApiKey: apiKey }, null, 2) as the tokens of the text
Field(name, value) == [name |-> name, value |-> value]
OpenBrace == Field("{", <<>>)
CloseBrace == Field("}", <<>>)

\* the characters JSON.stringify puts between the quotes of a string: a
\* double quote and a backslash get a backslash before them
RECURSIVE JsonEscape(_)
JsonEscape(s) ==
  IF s = <<>> THEN <<>>
  ELSE IF Head(s) \in {"\"", "\\"} THEN <<"\\", Head(s)>> \o JsonEscape(Tail(s))
  ELSE <<Head(s)>> \o JsonEscape(Tail(s))

\* the characters between the quotes taken as the string
JsonUnescape_None(s) == s

\* the string JSON.parse makes of the characters between the quotes: the
\* character after a backslash stands for itself
RECURSIVE JsonUnescape(_)
JsonUnescape(s) ==
  IF s = <<>> THEN <<>>
  ELSE IF Head(s) = "\\" /\ Len(s) >= 2 THEN <<s[2]>> \o JsonUnescape(Tail(Tail(s)))
  ELSE <<Head(s)>> \o JsonUnescape(Tail(s))

Stringify(apiKey) ==
  <<OpenBrace, Field(ConfigKeyField, JsonEscape(apiKey)), CloseBrace>>

IsField(t) == t \notin {OpenBrace, CloseBrace}

\* JSON.parse(text): the fields of the object, or a SyntaxError
JsonParse(text) ==
  IF /\ Len(text) >= 2
     /\ text[1] = OpenBrace
     /\ text[Len(text)] = CloseBrace
     /\ \A i \in 2..(Len(text) - 1) : IsField(text[i])
  THEN [ok |-> TRUE, fields |-> {text[i] : i \in 2..(Len(text) - 1)}]
  ELSE [ok |-> FALSE, fields |-> {}]

\* config.anthropicApiKey
ConfigKey(fields) ==
  IF \E f \in fields : f.name = ConfigKeyField
  THEN JsonUnescape((CHOOSE f \in fields : f.name = ConfigKeyField).value)
  ELSE Undefined

AllBits == {"ur", "uw", "gr", "gw", "or", "ow"}

\* 0o600
OwnerReadWrite == {"ur", "uw"}

\* the umasks a user may run under: 022 and 077
Umasks == { {"gw", "ow"}, {"gr", "gw", "or", "ow"} }

Trace(src, yielded) == [src |-> src, yielded |-> yielded]

\* return { method, key } to executeClaudeCommand
AuthReturn(method, key) ==
  stack' = [stack EXCEPT ![Len(stack)].auth = [method |-> method, key |-> key],
                         ![Len(stack)].pc = "claude"]

\* the environment check that never returns
AfterEnvCheck_NeverReturns(key) == "auth.probe"

\* the environment check as a test for a defined value
AfterEnvCheck_DefinedOnly(key) == IF key /= Undefined THEN "return" ELSE "auth.probe"

\* where getAnthropicApiKey goes after the environment check
AfterEnvCheck(key) == IF Truthy(key) THEN "return" ELSE "auth.probe"

\* 1. Check environment variable
AuthEnv ==
  /\ AtPc("auth.env")
  /\ authTrace' = <<Trace("env", Truthy(envKey))>>
  /\ IF AfterEnvCheck(envKey) = "return"
     THEN AuthReturn("env", envKey)
     ELSE Goto(AfterEnvCheck(envKey))
  /\ UNCHANGED <<diffVars, cmd, exitCode, argv, envKey, gitWorks, repo, cfgFile,
                 tmpFiles, calls, lastError, reported>>

\* 2. Check if claude CLI works: exec('claude --version', { throwOnError: true })
AuthProbe ==
  /\ AtPc("auth.probe")
  /\ \E ok \in BOOLEAN :
       /\ authTrace' = Append(authTrace, Trace("probe", ok))
       /\ IF ok THEN AuthReturn("claude-cli", Null) ELSE Goto("auth.config")
  /\ Issue(<<Call("claude", "--version", Undefined)>>)
  /\ UNCHANGED <<diffVars, cmd, exitCode, argv, envKey, gitWorks, repo, cfgFile,
                 tmpFiles, lastError, reported>>

\* what step 3 reads: the key of the stored config, Undefined when the file
\* is missing, does not parse or holds no key
StoredKey(file) ==
  IF ~file.exists THEN Undefined
  ELSE IF ~JsonParse(file.text).ok THEN Undefined
  ELSE ConfigKey(JsonParse(file.text).fields)

\* 3. Check stored config
AuthConfig ==
  /\ AtPc("auth.config")
  /\ authTrace' = Append(authTrace, Trace("config", Truthy(StoredKey(cfgFile))))
  /\ IF Truthy(StoredKey(cfgFile))
     THEN AuthReturn("config", StoredKey(cfgFile))
     ELSE Goto("auth.prompt")
  /\ UNCHANGED <<diffVars, cmd, exitCode, argv, envKey, gitWorks, repo, cfgFile,
                 tmpFiles, calls, lastError, reported>>

KeyRequiredError == Error("API key is required for AI features", 0)

\* the lines the user may type at the prompt
Answers == { <<>>, <<" ">>, <<"\"", "\\">>, <<" ", "p", " ">> }

\* rl.question('Enter your Anthropic API key: ', ...) and the line it read
QuestionCall(answer) == Call("tty", "question", answer)

\* 4. Prompt user for API key: resolve(answer.trim()), and the throw when
\* the key is empty, which every caller up to main passes on
AuthPrompt ==
  /\ AtPc("auth.prompt")
  /\ \E answer \in Answers :
       LET apiKey == Trim(answer)
       IN  /\ Issue(<<QuestionCall(answer)>>)
           /\ authTrace' = Append(authTrace, Trace("prompt", Truthy(apiKey)))
           /\ IF ~Truthy(apiKey)
              THEN /\ lastError' = KeyRequiredError
                   /\ ExitWith(1)
              ELSE /\ stack' = [stack EXCEPT ![Len(stack)].apiKey = apiKey,
                                             ![Len(stack)].pc = "auth.mkdir"]
                   /\ UNCHANGED <<lastError, exitCode>>
  /\ UNCHANGED <<diffVars, cmd, argv, envKey, gitWorks, repo, cfgFile, tmpFiles,
                 reported>>

\* fs.mkdir(path.dirname(configPath), { recursive: true }); a failure is
\* caught, warned about, and the key is returned all the same
AuthMkdir ==
  /\ AtPc("auth.mkdir")
  /\ \E ok \in BOOLEAN :
       /\ authTrace' = Append(authTrace, Trace("mkdir", ok))
       /\ IF ok THEN Goto("auth.write") ELSE AuthReturn("prompt", Top.apiKey)
  /\ UNCHANGED <<diffVars, cmd, exitCode, argv, envKey, gitWorks, repo, cfgFile,
                 tmpFiles, calls, lastError, reported>>

\* the file after fs.writeFile(configPath, text): a new file gets the mode
\* 0o666 less the umask, a file that was there keeps its mode
WriteFile(file, text, umask) ==
  [exists |-> TRUE, text |-> text, ours |-> TRUE,
   mode |-> IF file.exists THEN file.mode ELSE AllBits \ umask]

\* a write of the config file that succeeded, as the log keeps it
WriteFileCall == Call("fs", "writeFile", Undefined)

\* fs.writeFile(configPath, JSON.stringify({ anthropicApiKey: apiKey }, null, 2))
AuthWrite ==
  /\ AtPc("auth.write")
  /\ \E ok \in BOOLEAN, umask \in Umasks :
       /\ authTrace' = Append(authTrace, Trace("write", ok))
       /\ IF ok
          THEN /\ cfgFile' = WriteFile(cfgFile, Stringify(Top.apiKey), umask)
               /\ Issue(<<WriteFileCall>>)
               /\ Goto("auth.chmod")
          ELSE /\ UNCHANGED <<cfgFile, calls>>
               /\ AuthReturn("prompt", Top.apiKey)
  /\ UNCHANGED <<diffVars, cmd, exitCode, argv, envKey, gitWorks, repo, tmpFiles,
                 lastError, reported>>

\* fs.chmod(configPath, 0o600), then return { method: 'prompt', key: apiKey }
AuthChmod ==
  /\ AtPc("auth.chmod")
  /\ \E ok \in BOOLEAN :
       /\ authTrace' = Append(authTrace, Trace("chmod", ok))
       /\ cfgFile' = IF ok THEN [cfgFile EXCEPT !.mode = OwnerReadWrite] ELSE cfgFile
  /\ AuthReturn("prompt", Top.apiKey)
  /\ UNCHANGED <<diffVars, cmd, exitCode, argv, envKey, gitWorks, repo, tmpFiles,
                 calls, lastError, reported>>

(***************************************************************************)
(* executeClaudeCommand                                                    *)
(***************************************************************************)
ClaudeTimeoutMs == 90000

\* the seconds written in the message of the timeout error
TimeoutSecondsNamed == 90

TimeoutError == Error("Claude CLI timed out after", TimeoutSecondsNamed)
NotFoundError == Error("Claude CLI not found", 0)
\* the errors of execa that are passed on as they are
ExitCodeError == Error("execa: command failed with exit code", 0)
SpawnError == Error("execa: command failed", 0)

\* how an execa.command call can end
Outcomes == {"ok", "timedOut", "exitCode", "failed"}

\* the catch blocks without the test of error.timedOut
ClaudeError_NoTimeoutCheck(method, outcome) ==
  IF method = "claude-cli" THEN
    (IF outcome = "exitCode" THEN ExitCodeError ELSE SpawnError)
  ELSE IF outcome = "exitCode" THEN NotFoundError
  ELSE SpawnError

\* the error thrown from the catch block for a failed call
ClaudeError(method, outcome) ==
  IF outcome = "timedOut" THEN TimeoutError
  ELSE IF method = "claude-cli" THEN
    (IF outcome = "exitCode" THEN ExitCodeError ELSE SpawnError)
  ELSE IF outcome = "exitCode" THEN NotFoundError
  ELSE SpawnError

\* what the AI client may print for a commit message
CommitOutputs ==
  { <<"f", ":", " ", "w", "\n">>,
    <<"f", ":", " ", "\"", "w", "\"", "\n">>,
    <<"a", " ", "\"", "b", " ", "c", "\"">>,
    <<"i", "\"", "s", "\n">>,
    <<"\n">> }

\* what it may print for a pull request: the lines of the text
PROutputs ==
  { <<"T", "\n", "\n", "b", "\n", "c">>,
    <<"\"", "T", "\"">> }

Stdouts(prog) == IF prog = "ghc" THEN CommitOutputs ELSE PROutputs

\* ghp taking the create branch whatever the lookup found
AfterGenerate_AlwaysCreate(p) ==
  IF p.prog = "ghc" THEN "commit" ELSE "create.write"

\* where main goes on once the content is generated
AfterGenerate(p) ==
  IF p.prog = "ghc" THEN "commit"
  ELSE IF p.existingPR THEN "edit.write"
  ELSE "create.write"

\* the env option of the call: the key is handed over unless the session is used
ClaudeEnv(auth) ==
  IF auth.method /= "claude-cli" /\ Truthy(auth.key) THEN auth.key ELSE Undefined

\* the call as the log keeps it: its options, the method it was made under
\* and how it ended
ClaudeCall(auth, outcome) ==
  [env |-> ClaudeEnv(auth), timeout |-> ClaudeTimeoutMs, method |-> auth.method,
   outcome |-> outcome]

\* execa.command(`claude --print "${prompt}"`, { input, timeout: 90000, env }),
\* result.stdout.trim(), and the catch blocks; main's catch exits with 1
InvokeClaude ==
  /\ AtPc("claude")
  /\ \E outcome \in Outcomes :
       /\ Issue(<<Call("claude", "--print", ClaudeCall(Top.auth, outcome))>>)
       /\ IF outcome = "ok"
          THEN /\ \E stdout \in Stdouts(Top.prog) :
                    stack' = [stack EXCEPT ![Len(stack)].content = Trim(stdout),
                                           ![Len(stack)].pc = AfterGenerate(Top)]
               /\ UNCHANGED <<lastError, exitCode>>
          ELSE /\ lastError' = ClaudeError(Top.auth.method, outcome)
               /\ ExitWith(1)
  /\ authTrace' = <<>>
  /\ UNCHANGED <<diffVars, cmd, argv, envKey, gitWorks, repo, cfgFile, tmpFiles,
                 reported>>

(***************************************************************************)
(* The shell: exec runs its command with shell: true.                      *)
(***************************************************************************)
\* the words the shell makes of the characters line[i..]: a double quote
\* opens or closes a quoted stretch, a backslash makes the next character
\* an ordinary one, a space outside quotes ends the word.  cur is <<>> when
\* no word is begun, else <<the word so far>>
RECURSIVE ShellSplit(_, _, _, _, _)
ShellSplit(line, i, inQuote, cur, words) ==
  LET begun == IF cur = <<>> THEN <<>> ELSE cur[1]
  IN  IF i > Len(line)
      THEN IF inQuote THEN [ok |-> FALSE, words |-> <<>>]
           ELSE [ok |-> TRUE, words |-> words \o cur]
      ELSE IF line[i] = "\\" /\ i < Len(line)
           THEN ShellSplit(line, i + 2, inQuote, <<Append(begun, line[i + 1])>>, words)
      ELSE IF line[i] = "\""
           THEN ShellSplit(line, i + 1, ~inQuote, <<begun>>, words)
      ELSE IF line[i] = " " /\ ~inQuote
           THEN ShellSplit(line, i + 1, inQuote, <<>>, words \o cur)
      ELSE ShellSplit(line, i + 1, inQuote, <<Append(begun, line[i])>>, words)

\* the argument vector of a command line, ok = FALSE on a syntax error
ShellWords(line) == ShellSplit(line, 1, FALSE, <<>>, <<>>)

(***************************************************************************)
(* ghc                                                                     *)
(***************************************************************************)
AnyChanges(r) == r.unstaged \/ r.staged \/ r.untracked

\* the test as one for a result that is not null
HasUncommittedChanges_NotNull == gitWorks

\* hasUncommittedChanges(): a command that fails gives null
HasUncommittedChanges == gitWorks /\ AnyChanges(repo)

HasUncommittedCalls ==
  << Call("git", "diff --name-only", Undefined),
     Call("git", "diff --cached --name-only", Undefined),
     Call("git", "ls-files --others --exclude-standard", Undefined) >>

\* if (!(await hasUncommittedChanges())) process.exit(0)
GhcStart ==
  /\ At("ghc", "start")
  /\ Issue(HasUncommittedCalls)
  /\ IF HasUncommittedChanges
     THEN Goto("hasStaged") /\ UNCHANGED <<exitCode, reported>>
     ELSE Report("No changes to commit") /\ ExitWith(0)
  /\ UNCHANGED <<diffVars, cmd, argv, envKey, gitWorks, repo, cfgFile, tmpFiles,
                 authTrace, lastError>>

\* if (!(await hasStagedChanges()))
GhcHasStaged ==
  /\ At("ghc", "hasStaged")
  /\ Issue(<<Call("git", "diff --cached --name-only", Undefined)>>)
  /\ Goto(IF repo.staged THEN "diff" ELSE "stage")
  /\ UNCHANGED <<diffVars, cmd, exitCode, argv, envKey, gitWorks, repo, cfgFile,
                 tmpFiles, authTrace, lastError, reported>>

\* stageAllChanges(): exec('git add -A'); it may fail, and it may stage
\* nothing (the only change is one add -A does not take, a dirty submodule)
GhcStage ==
  /\ At("ghc", "stage")
  /\ Issue(<<Call("git", "add -A", Undefined)>>)
  /\ \E outcome \in {"staged", "nothing", "failed"} :
       CASE outcome = "staged" ->
              /\ repo' = [unstaged |-> FALSE, staged |-> TRUE, untracked |-> FALSE]
              /\ Goto("diff")
              /\ UNCHANGED exitCode
         [] outcome = "nothing" ->
              /\ repo.unstaged
              /\ repo' = [repo EXCEPT !.untracked = FALSE]
              /\ Goto("diff")
              /\ UNCHANGED exitCode
         [] outcome = "failed" ->
              /\ UNCHANGED repo
              /\ ExitWith(1)
  /\ UNCHANGED <<diffVars, cmd, argv, envKey, gitWorks, cfgFile, tmpFiles,
                 authTrace, lastError, reported>>

\* const diff = await exec('git diff --cached'); if (!diff) process.exit(1);
\* then generateCommitMessage(diff) is entered
GhcDiff ==
  /\ At("ghc", "diff")
  /\ Issue(<<Call("git", "diff --cached", Undefined)>>)
  /\ \E ok \in BOOLEAN :
       IF ok /\ repo.staged
       THEN Goto("auth.env") /\ UNCHANGED <<exitCode, reported>>
       ELSE IF ok
       THEN Report("No staged changes to commit") /\ ExitWith(1)
       ELSE ExitWith(1) /\ UNCHANGED reported
  /\ UNCHANGED <<diffVars, cmd, argv, envKey, gitWorks, repo, cfgFile, tmpFiles,
                 authTrace, lastError>>

\* the characters of `git commit -m "${commitMsg}"`
CommitCommand(commitMsg) ==
  <<"git", " ", "commit", " ", "-m", " ", "\"">> \o commitMsg \o <<"\"">>

\* what git commit is given: the message after -m and the words after it
CommitArgs(commitMsg) ==
  LET parsed == ShellWords(CommitCommand(commitMsg))
  IN  [ok |-> parsed.ok,
       message |-> IF parsed.ok THEN parsed.words[4] ELSE Undefined,
       rest |-> IF parsed.ok THEN SliceFrom(parsed.words, 4) ELSE <<>>]

\* await exec(`git commit -m "${commitMsg}"`): the shell may reject the
\* line, git rejects an empty message, and a commit may fail otherwise
GhcCommit ==
  /\ At("ghc", "commit")
  /\ LET args == CommitArgs(Top.content)
     IN  /\ Issue(<<Call(IF args.ok THEN "git" ELSE "sh", "commit",
                         [message |-> args.message, rest |-> args.rest])>>)
         /\ \E ok \in BOOLEAN :
              IF ok /\ args.ok /\ args.message /= <<>>
              THEN /\ repo' = [repo EXCEPT !.staged = FALSE]
                   /\ Report("Committed successfully")
                   /\ Goto("showPR")
                   /\ UNCHANGED exitCode
              ELSE /\ Report("Commit failed")
                   /\ ExitWith(1)
                   /\ UNCHANGED repo
  /\ UNCHANGED <<diffVars, cmd, argv, envKey, gitWorks, cfgFile, tmpFiles,
                 authTrace, lastError>>

\* getCurrentPR(): exec('gh pr view --json url -q .url'), null when it fails
PRViewCall == Call("gh", "pr view", Undefined)

\* const prUrl = await getCurrentPR(); process.exit(0)
GhcShowPR ==
  /\ At("ghc", "showPR")
  /\ Issue(<<PRViewCall>>)
  /\ ExitWith(0)
  /\ UNCHANGED <<diffVars, cmd, argv, envKey, gitWorks, repo, cfgFile, tmpFiles,
                 authTrace, lastError, reported>>

(***************************************************************************)
(* Steps shared by ghp and ghcp                                            *)
(***************************************************************************)
BranchCall == Call("git", "branch --show-current", Undefined)

\* where a parent goes on when its child ended with code 0
AfterChild(prog) ==
  CASE prog = "ghp"  -> "push"
    [] prog = "ghcp" -> "branch"
    [] prog = "ghpa" -> "merge"

\* if (!ghcResult) process.exit(1), and the same for ghpResult
ChildDone ==
  /\ AtPc("childDone")
  /\ IF Top.childOk
     THEN Goto(AfterChild(Top.prog)) /\ UNCHANGED exitCode
     ELSE ExitWith(1)
  /\ UNCHANGED <<diffVars, cmd, argv, envKey, gitWorks, repo, cfgFile, tmpFiles,
                 calls, authTrace, lastError, reported>>

\* the commands of ensureBranchPushed() up to its end or its first failure
PushCalls(outcome, hasUpstream) ==
  IF outcome = "noBranch" THEN <<BranchCall>>
  ELSE << BranchCall,
          Call("git", "rev-parse --abbrev-ref @{upstream}", Undefined),
          Call("git", IF hasUpstream THEN "push" ELSE "push -u origin", Undefined) >>

\* the catch of the push going on to the lookup
Push_ContinuesOnFailure ==
  /\ \/ At("ghp", "push")
     \/ At("ghcp", "push")
  /\ \E outcome \in {"ok", "noBranch", "pushFailed"}, hasUpstream \in BOOLEAN :
       /\ outcome = "ok" => gitWorks
       /\ Issue(PushCalls(outcome, hasUpstream))
       /\ Report(IF outcome = "ok" THEN "Pushed" ELSE "Push failed")
       /\ Goto("lookup")
       /\ UNCHANGED exitCode
  /\ UNCHANGED <<diffVars, cmd, argv, envKey, gitWorks, repo, cfgFile, tmpFiles,
                 authTrace, lastError>>

\* try { await ensureBranchPushed() } catch { process.exit(1) }
Push ==
  /\ \/ At("ghp", "push")
     \/ At("ghcp", "push")
  /\ \E outcome \in {"ok", "noBranch", "pushFailed"}, hasUpstream \in BOOLEAN :
       /\ outcome = "ok" => gitWorks
       /\ Issue(PushCalls(outcome, hasUpstream))
       /\ IF outcome = "ok"
          THEN /\ Report("Pushed")
               /\ Goto("lookup")
               /\ UNCHANGED exitCode
          ELSE /\ Report("Push failed")
               /\ ExitWith(1)
  /\ UNCHANGED <<diffVars, cmd, argv, envKey, gitWorks, repo, cfgFile, tmpFiles,
                 authTrace, lastError>>

(***************************************************************************)
(* ghp                                                                     *)
(***************************************************************************)
\* const branch = await getCurrentBranch(): it throws when git fails or
\* names no branch, and main's catch exits with 1
GhpStart ==
  /\ At("ghp", "start")
  /\ Issue(<<BranchCall>>)
  /\ \E ok \in BOOLEAN :
       IF ok /\ gitWorks THEN Goto("check") /\ UNCHANGED exitCode
       ELSE ExitWith(1)
  /\ UNCHANGED <<diffVars, cmd, argv, envKey, gitWorks, repo, cfgFile, tmpFiles,
                 authTrace, lastError, reported>>

\* if (await hasUncommittedChanges()) execStream(`node "${ghcPath}"`)
GhpCheck ==
  /\ At("ghp", "check")
  /\ Issue(HasUncommittedCalls)
  /\ IF HasUncommittedChanges THEN Spawn("ghc") ELSE Goto("push")
  /\ UNCHANGED <<diffVars, cmd, exitCode, argv, envKey, gitWorks, repo, cfgFile,
                 tmpFiles, authTrace, lastError, reported>>

\* const existingPR = await getCurrentPR()
GhpLookup ==
  /\ At("ghp", "lookup")
  /\ Issue(<<PRViewCall>>)
  /\ \E found \in BOOLEAN :
       /\ stack' = [stack EXCEPT ![Len(stack)].existingPR = found,
                                 ![Len(stack)].pc = "context"]
       /\ reported' = IF found THEN reported \cup {"PR already exists"} ELSE reported
  /\ UNCHANGED <<diffVars, cmd, exitCode, argv, envKey, gitWorks, repo, cfgFile,
                 tmpFiles, authTrace, lastError>>

PRContextCalls ==
  << Call("git", "diff origin/main...HEAD --stat", Undefined),
     Call("git", "log origin/main..HEAD --oneline", Undefined),
     Call("git", "diff origin/main...HEAD", Undefined) >>

\* const context = await getPRContext(), whose commands throw on failure;
\* then generatePRContent(context) is entered
GhpContext ==
  /\ At("ghp", "context")
  /\ \E n \in 1..3, ok \in BOOLEAN :
       /\ ok => n = 3
       /\ Issue(Slice(PRContextCalls, n))
       /\ IF ok THEN Goto("auth.env") /\ UNCHANGED exitCode
          ELSE ExitWith(1)
  /\ UNCHANGED <<diffVars, cmd, argv, envKey, gitWorks, repo, cfgFile, tmpFiles,
                 authTrace, lastError, reported>>

\* text.split('\n'): the lines of the characters s[i..], cur the line begun
RECURSIVE SplitLines(_, _, _)
SplitLines(s, i, cur) ==
  IF i > Len(s) THEN <<cur>>
  ELSE IF s[i] = "\n" THEN <<cur>> \o SplitLines(s, i + 1, <<>>)
  ELSE SplitLines(s, i + 1, Append(cur, s[i]))

\* lines[0]; undefined has no place here, split gives one line at least
PRTitle(prContent) == SplitLines(prContent, 1, <<>>)[1]

\* prContent.split('\n').slice(2), the lines of the body
PRBody(prContent) == SliceFrom(SplitLines(prContent, 1, <<>>), 2)

EditTmpFile == "pr-edit.md"
CreateTmpFile == "pr-body.md"

\* fs.writeFileSync(tmpFile, description)
GhpEditWrite ==
  /\ At("ghp", "edit.write")
  /\ \E ok \in BOOLEAN :
       IF ok
       THEN /\ tmpFiles' = tmpFiles \cup {EditTmpFile}
            /\ Goto("edit.call")
            /\ UNCHANGED exitCode
       ELSE /\ UNCHANGED tmpFiles
            /\ ExitWith(1)
  /\ UNCHANGED <<diffVars, cmd, argv, envKey, gitWorks, repo, cfgFile, calls,
                 authTrace, lastError, reported>>

\* what gh pr edit is told to change
EditFlags == {"--body-file"}

\* await exec(`gh pr edit --body-file "${tmpFile}"`); a failure is thrown
\* to main's catch
GhpEditCall ==
  /\ At("ghp", "edit.call")
  /\ \E ok \in BOOLEAN :
       /\ Issue(<<Call("gh", "pr edit",
                       [flags |-> EditFlags, body |-> PRBody(Top.content), ok |-> ok])>>)
       /\ IF ok THEN Goto("edit.unlink") /\ UNCHANGED exitCode
          ELSE ExitWith(1)
  /\ UNCHANGED <<diffVars, cmd, argv, envKey, gitWorks, repo, cfgFile, tmpFiles,
                 authTrace, lastError, reported>>

\* fs.unlinkSync(tmpFile); console.log('PR description updated'); main ends
GhpEditUnlink ==
  /\ At("ghp", "edit.unlink")
  /\ \E ok \in BOOLEAN :
       IF ok
       THEN /\ tmpFiles' = tmpFiles \ {EditTmpFile}
            /\ Report("PR description updated")
            /\ ExitWith(0)
       ELSE /\ UNCHANGED <<tmpFiles, reported>>
            /\ ExitWith(1)
  /\ UNCHANGED <<diffVars, cmd, argv, envKey, gitWorks, repo, cfgFile, calls,
                 authTrace, lastError>>

\* fs.writeFileSync(tmpFile, body), inside the try of the create branch
GhpCreateWrite ==
  /\ At("ghp", "create.write")
  /\ \E ok \in BOOLEAN :
       IF ok
       THEN /\ tmpFiles' = tmpFiles \cup {CreateTmpFile}
            /\ Goto("create.call")
            /\ UNCHANGED <<exitCode, reported>>
       ELSE /\ UNCHANGED tmpFiles
            /\ Report("Failed to create PR")
            /\ ExitWith(1)
  /\ UNCHANGED <<diffVars, cmd, argv, envKey, gitWorks, repo, cfgFile, calls,
                 authTrace, lastError>>

\* title.replace(/"/g, '\\"')
RECURSIVE EscapeQuotes(_)
EscapeQuotes(s) ==
  IF s = <<>> THEN <<>>
  ELSE IF Head(s) = "\"" THEN <<"\\", "\"">> \o EscapeQuotes(Tail(s))
  ELSE <<Head(s)>> \o EscapeQuotes(Tail(s))

\* the characters of `gh pr create --title "${escapedTitle}" --body-file ...`
CreateCommand(title) ==
  <<"gh", " ", "pr", " ", "create", " ", "--title", " ", "\"">>
    \o EscapeQuotes(title)
    \o <<"\"", " ", "--body-file", " ", "--base", " ", "--head">>

\* the --title gh pr create is given
CreateTitle(title) ==
  LET parsed == ShellWords(CreateCommand(title))
  IN  IF parsed.ok THEN parsed.words[5] ELSE Undefined

\* const prOutput = await exec(`gh pr create ...`)
GhpCreateCall ==
  /\ At("ghp", "create.call")
  /\ \E ok \in BOOLEAN :
       /\ Issue(<<Call("gh", "pr create",
                       [flags |-> {"--title", "--body-file", "--base", "--head"},
                        title |-> CreateTitle(PRTitle(Top.content)),
                        body |-> PRBody(Top.content), ok |-> ok])>>)
       /\ IF ok THEN Goto("create.unlink") /\ UNCHANGED <<exitCode, reported>>
          ELSE Report("Failed to create PR") /\ ExitWith(1)
  /\ UNCHANGED <<diffVars, cmd, argv, envKey, gitWorks, repo, cfgFile, tmpFiles,
                 authTrace, lastError>>

\* fs.unlinkSync(tmpFile); the URL is printed when the output holds one;
\* main ends
GhpCreateUnlink ==
  /\ At("ghp", "create.unlink")
  /\ \E ok \in BOOLEAN, url \in BOOLEAN :
       IF ok
       THEN /\ tmpFiles' = tmpFiles \ {CreateTmpFile}
            /\ reported' = IF url THEN reported \cup {"PR created"} ELSE reported
            /\ ExitWith(0)
       ELSE /\ ~url
            /\ UNCHANGED tmpFiles
            /\ Report("Failed to create PR")
            /\ ExitWith(1)
  /\ UNCHANGED <<diffVars, cmd, argv, envKey, gitWorks, repo, cfgFile, calls,
                 authTrace, lastError>>

(***************************************************************************)
(* ghcp                                                                    *)
(***************************************************************************)
\* const ghcResult = await execStream(`node "${ghcPath}"`, ...)
GhcpStart ==
  /\ At("ghcp", "start")
  /\ Spawn("ghc")
  /\ UNCHANGED <<diffVars, cmd, exitCode, argv, envKey, gitWorks, repo, cfgFile,
                 tmpFiles, calls, authTrace, lastError, reported>>

\* const branch = await getCurrentBranch()
GhcpBranch ==
  /\ At("ghcp", "branch")
  /\ Issue(<<BranchCall>>)
  /\ \E ok \in BOOLEAN :
       IF ok /\ gitWorks THEN Goto("push") /\ UNCHANGED exitCode
       ELSE ExitWith(1)
  /\ UNCHANGED <<diffVars, cmd, argv, envKey, gitWorks, repo, cfgFile, tmpFiles,
                 authTrace, lastError, reported>>

\* const prUrl = await getCurrentPR(); main ends
GhcpShowPR ==
  /\ At("ghcp", "lookup")
  /\ Issue(<<PRViewCall>>)
  /\ ExitWith(0)
  /\ UNCHANGED <<diffVars, cmd, argv, envKey, gitWorks, repo, cfgFile, tmpFiles,
                 authTrace, lastError, reported>>

(***************************************************************************)
(* ghpa                                                                    *)
(***************************************************************************)
\* const ghpResult = await execStream(`node "${ghpPath}"`, ...)
GhpaStart ==
  /\ At("ghpa", "start")
  /\ Spawn("ghp")
  /\ UNCHANGED <<diffVars, cmd, exitCode, argv, envKey, gitWorks, repo, cfgFile,
                 tmpFiles, calls, authTrace, lastError, reported>>

MergeCall == Call("gh", "pr merge --auto --squash", Undefined)

\* a failed merge call taken as a failure of the command
MergeExitCode_Fatal(ok) == IF ok THEN 0 ELSE 1

\* the status main ends with after the merge call: its catch only warns
MergeExitCode(ok) == 0

\* try { await exec('gh pr merge --auto --squash') } catch { warn }; main ends
GhpaMerge ==
  /\ At("ghpa", "merge")
  /\ Issue(<<MergeCall>>)
  /\ \E ok \in BOOLEAN :
       /\ Report(IF ok THEN "Auto-merge enabled" ELSE "Could not enable auto-merge")
       /\ ExitWith(MergeExitCode(ok))
  /\ UNCHANGED <<diffVars, cmd, argv, envKey, gitWorks, repo, cfgFile, tmpFiles,
                 authTrace, lastError>>

(***************************************************************************)
(* ghn                                                                     *)
(***************************************************************************)
\* if (!branchName) { console.error('Usage: ghn <branch-name>'); process.exit(1) }
GhnStart ==
  /\ At("ghn", "start")
  /\ IF Truthy(argv)
     THEN Goto("fetch") /\ UNCHANGED <<exitCode, reported>>
     ELSE Report("Usage: ghn <branch-name>") /\ ExitWith(1)
  /\ UNCHANGED <<diffVars, cmd, argv, envKey, gitWorks, repo, cfgFile, tmpFiles,
                 calls, authTrace, lastError>>

\* await exec('git fetch origin')
GhnFetch ==
  /\ At("ghn", "fetch")
  /\ Issue(<<Call("git", "fetch origin", Undefined)>>)
  /\ \E ok \in BOOLEAN :
       IF ok /\ gitWorks THEN Goto("checkout") /\ UNCHANGED <<exitCode, reported>>
       ELSE Report("Failed to create branch") /\ ExitWith(1)
  /\ UNCHANGED <<diffVars, cmd, argv, envKey, gitWorks, repo, cfgFile, tmpFiles,
                 authTrace, lastError>>

\* the characters of `git checkout -b "${branchName}" origin/main`
CheckoutCommand(branchName) ==
  <<"git", " ", "checkout", " ", "-b", " ", "\"">> \o branchName
    \o <<"\"", " ", "origin/main">>

\* what git checkout is given: the name after -b, the start point after it
\* and the words after that
CheckoutArgs(branchName) ==
  LET parsed == ShellWords(CheckoutCommand(branchName))
      given == parsed.ok /\ Len(parsed.words) >= 5
  IN  [ok |-> given,
       branch |-> IF given THEN parsed.words[4] ELSE Undefined,
       base |-> IF given THEN parsed.words[5] ELSE Undefined,
       rest |-> IF given THEN SliceFrom(parsed.words, 5) ELSE <<>>]

\* git takes no branch name that is empty or holds a space
IsRefName(name) == name /= <<>> /\ \A i \in 1..Len(name) : name[i] /= " "

\* await exec(`git checkout -b "${branchName}" origin/main`); main ends
GhnCheckout ==
  /\ At("ghn", "checkout")
  /\ LET args == CheckoutArgs(argv)
     IN  /\ Issue(<<Call(IF args.ok THEN "git" ELSE "sh", "checkout -b",
                         [branch |-> args.branch, base |-> args.base,
                          rest |-> args.rest])>>)
         /\ \E ok \in BOOLEAN :
              IF ok /\ args.ok /\ IsRefName(args.branch) /\ args.rest = <<>>
              THEN Report("Switched to new branch") /\ ExitWith(0)
              ELSE Report("Failed to create branch") /\ ExitWith(1)
  /\ UNCHANGED <<diffVars, cmd, argv, envKey, gitWorks, repo, cfgFile, tmpFiles,
                 authTrace, lastError>>

(***************************************************************************)
(* The runs of the commands                                                *)
(***************************************************************************)
Programs == {"ghc", "ghp", "ghcp", "ghpa", "ghn"}

Repos ==
  { [unstaged |-> FALSE, staged |-> FALSE, untracked |-> FALSE],
    [unstaged |-> TRUE,  staged |-> FALSE, untracked |-> FALSE],
    [unstaged |-> FALSE, staged |-> TRUE,  untracked |-> FALSE],
    [unstaged |-> TRUE,  staged |-> TRUE,  untracked |-> TRUE],
    [unstaged |-> FALSE, staged |-> FALSE, untracked |-> TRUE] }

\* the config file a run may find: none, one cut short, one with no key,
\* and one an earlier run saved and restricted
ConfigFiles ==
  { [exists |-> FALSE, text |-> <<>>, mode |-> {}, ours |-> FALSE],
    [exists |-> TRUE, text |-> <<OpenBrace>>,
     mode |-> {"ur", "uw", "gr", "or"}, ours |-> FALSE],
    [exists |-> TRUE, text |-> <<OpenBrace, CloseBrace>>,
     mode |-> {"ur", "uw", "gr", "or"}, ours |-> FALSE],
    [exists |-> TRUE, text |-> Stringify(<<"s">>),
     mode |-> OwnerReadWrite, ours |-> TRUE] }

EnvKeys == {Undefined, <<>>, <<"e">>}

\* process.argv[2] of ghn: none, '', and names with and without characters
\* the shell reads
BranchNames ==
  { Undefined, <<>>, <<"b">>, <<"a", " ", "b">>, <<"a", "\"", "b">>,
    <<"a", "\"", "b", "\"", "c">> }

Idle ==
  /\ diff = <<EmptyLine>>
  /\ commitOut = None
  /\ prOut = None

Init ==
  /\ Idle
  /\ \E prog \in Programs :
       /\ cmd = prog
       /\ stack = <<NewProcess(prog)>>
       /\ argv \in IF prog = "ghn" THEN BranchNames ELSE {Undefined}
       /\ envKey \in IF prog = "ghn" THEN {Undefined} ELSE EnvKeys
       /\ cfgFile \in IF prog = "ghn" THEN {CHOOSE f \in ConfigFiles : ~f.exists}
                      ELSE ConfigFiles
       /\ repo \in IF prog = "ghn" THEN {CHOOSE r \in Repos : ~AnyChanges(r)}
                   ELSE Repos
  /\ gitWorks \in BOOLEAN
  /\ gitWorks \/ ~AnyChanges(repo)
  /\ exitCode = NoExit
  /\ tmpFiles = {}
  /\ calls = <<>>
  /\ authTrace = <<>>
  /\ lastError = NoError
  /\ reported = {}

Next ==
  \/ AuthEnv \/ AuthProbe \/ AuthConfig \/ AuthPrompt
  \/ AuthMkdir \/ AuthWrite \/ AuthChmod
  \/ InvokeClaude
  \/ GhcStart \/ GhcHasStaged \/ GhcStage \/ GhcDiff \/ GhcCommit \/ GhcShowPR
  \/ ChildDone \/ Push
  \/ GhpStart \/ GhpCheck \/ GhpLookup \/ GhpContext
  \/ GhpEditWrite \/ GhpEditCall \/ GhpEditUnlink
  \/ GhpCreateWrite \/ GhpCreateCall \/ GhpCreateUnlink
  \/ GhcpStart \/ GhcpBranch \/ GhcpShowPR
  \/ GhpaStart \/ GhpaMerge
  \/ GhnStart \/ GhnFetch \/ GhnCheckout

vars == <<diff, commitOut, prOut, stack, cmd, exitCode, argv, envKey, gitWorks, repo,
          cfgFile, tmpFiles, calls, authTrace, lastError, reported>>

Spec == Init /\ [][Next]_vars

(***************************************************************************)
(* The truncation policies applied to the diffs                            *)
(***************************************************************************)
NoProcess ==
  /\ stack = <<>>
  /\ cmd = "none"
  /\ exitCode = NoExit
  /\ argv = Undefined
  /\ envKey = Undefined
  /\ gitWorks = TRUE
  /\ repo = [unstaged |-> FALSE, staged |-> FALSE, untracked |-> FALSE]
  /\ cfgFile = [exists |-> FALSE, text |-> <<>>, mode |-> {}, ours |-> FALSE]
  /\ tmpFiles = {}
  /\ calls = <<>>
  /\ authTrace = <<>>
  /\ lastError = NoError
  /\ reported = {}

InitDiff ==
  /\ \E bs \in BlockSeqs : diff = Expand(bs, 1)
  /\ commitOut = None
  /\ prOut = None
  /\ NoProcess

ApplyCommit ==
  /\ commitOut = None
  /\ commitOut' = limitDiffForCommit(diff)
  /\ UNCHANGED <<diff, prOut, procVars>>

ApplyPR ==
  /\ prOut = None
  /\ prOut' = limitDiffForPR(diff)
  /\ UNCHANGED <<diff, commitOut, procVars>>

NextDiff == ApplyCommit \/ ApplyPR

SpecDiff == InitDiff /\ [][NextDiff]_vars

(***************************************************************************)
(* Two invocations of getAnthropicApiKey at once: two commands started by  *)
(* the same user share the environment and the config file, and the steps  *)
(* of the two resolutions interleave at their awaits.  stack[i] is the     *)
(* i-th process, its pc "returned" after the return and "thrown" after the *)
(* throw.                                                                  *)
(***************************************************************************)
Invocations == {1, 2}

QuestionOf(i, answer) == Call("tty", "question", [pid |-> i, answer |-> answer])

WriteFileOf(i) == Call("fs", "writeFile", [pid |-> i])

\* return { method, key } of process i
ReturnOf(i, method, key) ==
  stack' = [stack EXCEPT ![i].auth = [method |-> method, key |-> key],
                         ![i].pc = "returned"]

GotoOf(i, pc) == stack' = [stack EXCEPT ![i].pc = pc]

\* a failed chmod answered by writing the file again
AfterSave_WriteAgain(step, ok) ==
  CASE step = "auth.mkdir" -> IF ok THEN "auth.write" ELSE "return"
    [] step = "auth.write" -> IF ok THEN "auth.chmod" ELSE "return"
    [] step = "auth.chmod" -> IF ok THEN "return" ELSE "auth.write"

\* where the try block of the save goes after a step: on to the next call,
\* or, after the last call and from the catch, to the return
AfterSave(step, ok) ==
  CASE step = "auth.mkdir" -> IF ok THEN "auth.write" ELSE "return"
    [] step = "auth.write" -> IF ok THEN "auth.chmod" ELSE "return"
    [] step = "auth.chmod" -> "return"

ConcurrentUnchanged ==
  UNCHANGED <<diffVars, cmd, exitCode, argv, envKey, gitWorks, repo, tmpFiles,
              authTrace, reported>>

\* 1. Check environment variable
ConcurrentEnv(i) ==
  /\ stack[i].pc = "auth.env"
  /\ IF AfterEnvCheck(envKey) = "return"
     THEN ReturnOf(i, "env", envKey)
     ELSE GotoOf(i, AfterEnvCheck(envKey))
  /\ UNCHANGED <<cfgFile, calls, lastError>>
  /\ ConcurrentUnchanged

\* 2. Check if claude CLI works
ConcurrentProbe(i) ==
  /\ stack[i].pc = "auth.probe"
  /\ \E ok \in BOOLEAN :
       IF ok THEN ReturnOf(i, "claude-cli", Null) ELSE GotoOf(i, "auth.config")
  /\ UNCHANGED <<cfgFile, calls, lastError>>
  /\ ConcurrentUnchanged

\* 3. Check stored config
ConcurrentConfig(i) ==
  /\ stack[i].pc = "auth.config"
  /\ IF Truthy(StoredKey(cfgFile))
     THEN ReturnOf(i, "config", StoredKey(cfgFile))
     ELSE GotoOf(i, "auth.prompt")
  /\ UNCHANGED <<cfgFile, calls, lastError>>
  /\ ConcurrentUnchanged

\* 4. Prompt user for API key
ConcurrentPrompt(i) ==
  /\ stack[i].pc = "auth.prompt"
  /\ \E answer \in Answers :
       /\ Issue(<<QuestionOf(i, answer)>>)
       /\ IF ~Truthy(Trim(answer))
          THEN /\ lastError' = KeyRequiredError
               /\ GotoOf(i, "thrown")
          ELSE /\ stack' = [stack EXCEPT ![i].apiKey = Trim(answer),
                                         ![i].pc = "auth.mkdir"]
               /\ UNCHANGED lastError
  /\ UNCHANGED cfgFile
  /\ ConcurrentUnchanged

\* fs.mkdir, fs.writeFile and fs.chmod of the save, each an await
ConcurrentSave(i) ==
  /\ stack[i].pc \in {"auth.mkdir", "auth.write", "auth.chmod"}
  /\ \E ok \in BOOLEAN, umask \in Umasks :
       /\ IF AfterSave(stack[i].pc, ok) = "return"
          THEN ReturnOf(i, "prompt", stack[i].apiKey)
          ELSE GotoOf(i, AfterSave(stack[i].pc, ok))
       /\ CASE stack[i].pc = "auth.write" /\ ok ->
                 /\ cfgFile' = WriteFile(cfgFile, Stringify(stack[i].apiKey), umask)
                 /\ Issue(<<WriteFileOf(i)>>)
            [] stack[i].pc = "auth.chmod" /\ ok ->
                 /\ cfgFile' = [cfgFile EXCEPT !.mode = OwnerReadWrite]
                 /\ UNCHANGED calls
            [] OTHER -> UNCHANGED <<cfgFile, calls>>
  /\ UNCHANGED lastError
  /\ ConcurrentUnchanged

InitConcurrent ==
  /\ Idle
  /\ cmd = "ghc"
  /\ stack = [i \in Invocations |-> [NewProcess("ghc") EXCEPT !.pc = "auth.env"]]
  /\ argv = Undefined
  /\ envKey \in EnvKeys
  /\ cfgFile \in ConfigFiles
  /\ repo = [unstaged |-> FALSE, staged |-> TRUE, untracked |-> FALSE]
  /\ gitWorks = TRUE
  /\ exitCode = NoExit
  /\ tmpFiles = {}
  /\ calls = <<>>
  /\ authTrace = <<>>
  /\ lastError = NoError
  /\ reported = {}

NextConcurrent ==
  \E i \in Invocations :
    \/ ConcurrentEnv(i)
    \/ ConcurrentProbe(i)
    \/ ConcurrentConfig(i)
    \/ ConcurrentPrompt(i)
    \/ ConcurrentSave(i)

SpecConcurrent == InitConcurrent /\ [][NextConcurrent]_vars

(***************************************************************************)
(* Properties of the truncation policies (under SpecDiff)                  *)
(***************************************************************************)
Computed == commitOut /= None /\ prOut /= None

\* C1: for every diff the output of limitDiffForCommit is at most 15,000
\* characters long and the output of limitDiffForPR at most 30,000, the
\* outputs that end in a truncation marker included.
C1_OutputWithinCeiling ==
  /\ commitOut /= None => StrLen(commitOut) <= CommitMaxChars
  /\ prOut /= None => StrLen(prOut) <= PRMaxChars

\* C2: a diff at or below the ceiling (15,000 for the commit policy, 30,000
\* for the PR policy) is returned as it is: the same lines in the same
\* order, no marker added.
C2_SmallDiffUnchanged ==
  /\ (commitOut /= None /\ StrLen(diff) <= CommitMaxChars) => commitOut = diff
  /\ (prOut /= None /\ StrLen(diff) <= PRMaxChars) => prOut = diff

\* a diff of exactly 15,000 characters has been through both policies
C2_Witness == Computed /\ StrLen(diff) = CommitMaxChars

\* the places in d of the lines of the given kinds, and the rank of a place
PlacesOf(d, kinds) == {i \in 1..Len(d) : d[i].kind \in kinds}
Rank(places, i) == Cardinality({k \in places : k <= i})

\* the lines of a string, none for the empty string
LinesOf(s) == IF s = <<EmptyLine>> THEN <<>> ELSE s

CommitHardTruncated == commitOut[Len(commitOut)] = CommitMarker

\* C3: for a diff of more than 15,000 characters that is not hard-truncated,
\* the output of limitDiffForCommit is every header line of the input
\* ('diff --git', '+++', '---'), in input order, followed by the first
\* change lines of the input ('+' or '-'), 200 of them at most.
C3_HeadersThenFirstChanges ==
  (commitOut /= None /\ StrLen(diff) > CommitMaxChars /\ ~CommitHardTruncated) =>
    LET headers == PlacesOf(diff, {"git", "ppp", "mmm"})
        changes == PlacesOf(diff, {"add", "del", "ppp", "mmm"})
        nH == Cardinality(headers)
        nC == Min(Cardinality(changes), CommitMaxChangeLines)
        out == LinesOf(commitOut)
    IN  /\ Len(out) = nH + nC
        /\ \A i \in headers : out[Rank(headers, i)] = diff[i]
        /\ \A i \in changes :
             Rank(changes, i) <= nC => out[nH + Rank(changes, i)] = diff[i]

\* a diff over the ceiling with headers and more than 200 change lines
\* whose structured output fits
C3_Witness ==
  /\ commitOut /= None
  /\ StrLen(diff) > CommitMaxChars
  /\ ~CommitHardTruncated
  /\ PlacesOf(diff, {"git"}) /= {}
  /\ Cardinality(PlacesOf(diff, {"add", "del", "ppp", "mmm"})) > CommitMaxChangeLines

\* s is the first characters of d: all its lines but the last are lines of
\* d, and the last is the beginning of the line of d at that place
IsStringPrefix(s, d) ==
  /\ Len(s) <= Len(d)
  /\ \A i \in 1..(Len(s) - 1) : s[i] = d[i]
  /\ s[Len(s)].len <= d[Len(s)].len
  /\ s[Len(s)] = Cut(d[Len(s)], s[Len(s)].len)

\* C4: for a diff of more than 100,000 characters the output of
\* limitDiffForPR is the first 30,000 characters of the input followed by
\* an empty line and the truncation marker; no file section is made.
C4_HugeDiffHardTruncated ==
  (prOut /= None /\ StrLen(diff) > PRSimpleTruncationOver) =>
    LET n == Len(prOut)
        kept == SubSeq(prOut, 1, n - 2)
    IN  /\ n >= 3
        /\ prOut[n] = PRMarker
        /\ prOut[n - 1] = EmptyLine
        /\ StrLen(kept) = PRMaxChars
        /\ IsStringPrefix(kept, diff)

\* a diff of more than 100,000 characters that names a file and has change
\* lines has been through the PR policy
C4_Witness ==
  /\ prOut /= None
  /\ StrLen(diff) > PRSimpleTruncationOver
  /\ PlacesOf(diff, {"git"}) /= {}
  /\ PlacesOf(diff, {"add", "del"}) /= {}

\* the first places of the 'diff --git' lines of d: the files of d in the
\* order they are first met
FilePlaces(d) ==
  {i \in PlacesOf(d, {"git"}) : \A j \in 1..(i - 1) : d[j] /= d[i]}

\* the r-th file of d
FileAt(d, r) ==
  d[CHOOSE i \in FilePlaces(d) : Rank(FilePlaces(d), i) = r]

\* the change lines that count for file f: those that follow the last
\* 'diff --git' line of f, up to the next 'diff --git' line, the first 20
\* of them
SampleOf(d, f) ==
  LET last == CHOOSE i \in 1..Len(d) : d[i] = f /\ \A j \in (i + 1)..Len(d) : d[j] /= f
      later == {j \in PlacesOf(d, {"git"}) : j > last}
      stop == IF later = {} THEN Len(d) + 1
              ELSE CHOOSE j \in later : \A k \in later : j <= k
      isChange(l) == l.kind \in {"add", "del", "ppp", "mmm"}
      changes == SelectSeq(SubSeq(d, last + 1, stop - 1), isChange)
  IN  SubSeq(changes, 1, Min(Len(changes), PRMaxLinesPerFile))

\* the section of the r-th file: its 'diff --git' line, its sample, and the
\* line the section ends
SectionOf(d, r) ==
  LET sample == SampleOf(d, FileAt(d, r))
  IN  <<FileAt(d, r)>> \o (IF sample = <<>> THEN <<EmptyLine>> ELSE sample)
        \o <<EmptyLine>>

\* the sections of the first n files, one after the other
RECURSIVE SectionsOf(_, _)
SectionsOf(d, n) ==
  IF n = 0 THEN <<>> ELSE SectionsOf(d, n - 1) \o SectionOf(d, n)

PRStructured ==
  /\ prOut /= None
  /\ StrLen(diff) > PRMaxChars
  /\ StrLen(diff) <= PRSimpleTruncationOver

\* the number of file sections in the output
PRSectionCount ==
  LET nH == Cardinality(PlacesOf(diff, {"git", "ppp", "mmm", "idx"}))
  IN  Cardinality({i \in (nH + 1)..Len(prOut) : prOut[i].kind = "git"})

\* C19: for a diff of more than 30,000 and at most 100,000 characters the
\* output of limitDiffForPR is the header lines, then one section per file
\* with at most 20 change lines of that file (the file of a line being the
\* latest 'diff --git' line before it), the sections in the order the
\* files are first met and for a prefix of that order only (the files
\* from the first whose section would take the length over 30,000 on are
\* left out), then the truncation marker.
C19_PRSectionsPerFile ==
  PRStructured =>
    LET headers == PlacesOf(diff, {"git", "ppp", "mmm", "idx"})
        nH == IF headers = {} THEN 1 ELSE Cardinality(headers)
        n == Len(prOut)
        nFiles == Cardinality(FilePlaces(diff))
        included == PRSectionCount
        limited == SubSeq(prOut, 1, n - 2)
        starts == {i \in (nH + 1)..n : prOut[i].kind = "git"}
    IN  /\ n >= nH + 4
        /\ prOut[n] = PRMarker
        /\ prOut[n - 1] = EmptyLine
        /\ \A i \in headers : prOut[Rank(headers, i)] = diff[i]
        /\ prOut[nH + 1] = EmptyLine /\ prOut[nH + 2] = EmptyLine
        /\ included <= nFiles
        /\ SubSeq(prOut, nH + 3, n - 2) = SectionsOf(diff, included)
        /\ \A i \in starts :
             Cardinality({k \in (i + 1)..n :
                            /\ prOut[k].kind \in {"add", "del", "ppp", "mmm"}
                            /\ \A j \in starts : ~(i < j /\ j < k)})
               <= PRMaxLinesPerFile
        /\ included >= 1 => StrLen(limited) <= PRMaxChars
        /\ included < nFiles =>
             StrLen(limited) + 1 + StrLen(SectionOf(diff, included + 1)) > PRMaxChars

\* a diff between the two thresholds, of which the first file's section
\* is in the output and a later file's is left out
C19_Witness ==
  /\ PRStructured
  /\ PRSectionCount >= 1
  /\ PRSectionCount < Cardinality(FilePlaces(diff))

(***************************************************************************)
(* Properties of the authentication resolver (under Spec)                  *)
(***************************************************************************)
SourceOrder == <<"env", "probe", "config", "prompt">>

IsSource(t) == t.src \in {"env", "probe", "config", "prompt"}
IsFileChange(t) == t.src \in {"mkdir", "write", "chmod"}

Consulted == SelectSeq(authTrace, IsSource)
FileChanges == SelectSeq(authTrace, IsFileChange)

\* C5: getAnthropicApiKey consults environment key, CLI-session probe,
\* saved config file and prompt in that order, and a source only when every
\* earlier one yielded nothing: with the environment key set nothing else
\* is consulted or written, after a successful probe the file is not read
\* and nobody is prompted, after a key from the file nobody is prompted; the
\* file is written only after the prompt gave a key.
C5_SourcesInPriorityOrder ==
  /\ Len(Consulted) <= Len(SourceOrder)
  /\ \A i \in 1..Len(Consulted) : Consulted[i].src = SourceOrder[i]
  /\ \A i \in 1..(Len(Consulted) - 1) : ~Consulted[i].yielded
  /\ FileChanges /= <<>> => (Len(Consulted) = 4 /\ Consulted[4].yielded)
  /\ (Truthy(envKey) /\ authTrace /= <<>>) => Len(authTrace) = 1
  /\ \A i \in 1..Len(stack) :
       /\ stack[i].auth.method = "env" => stack[i].auth.key = envKey
       /\ stack[i].auth.method /= "none" /\ Truthy(envKey)
            => stack[i].auth.method = "env"

\* a resolution that went through all four sources and wrote the file
C5_Witness ==
  /\ AtPc("claude")
  /\ Top.auth.method = "prompt"
  /\ Len(Consulted) = 4
  /\ \E i \in 1..Len(authTrace) : authTrace[i] = Trace("write", TRUE)

Methods == {"env", "claude-cli", "config", "prompt"}

\* C6: in every AuthResult that getAnthropicApiKey returns, key is null
\* exactly when method is 'claude-cli'; for 'env', 'config' and 'prompt' the
\* key is a non-empty value.
C6_KeyNullIffCliSession ==
  \A i \in 1..Len(stack) :
    stack[i].auth /= NoAuth =>
      /\ stack[i].auth.method \in Methods
      /\ stack[i].auth.key = Null <=> stack[i].auth.method = "claude-cli"
      /\ stack[i].auth.method /= "claude-cli" =>
           stack[i].auth.key \notin {Null, Undefined, <<>>}

\* the probe succeeded and the result, with a null key, is returned
C6_Witness ==
  /\ AtPc("claude")
  /\ Top.auth = [method |-> "claude-cli", key |-> Null]
  /\ authTrace = <<Trace("env", FALSE), Trace("probe", TRUE)>>

\* C7: whenever the saved-credential file exists and holds a key this
\* system wrote, only its owner may read and write it, in every state of the
\* prompt path: between the write and the chmod, and after a failed chmod.
C7_SavedKeyOwnerOnly ==
  (cfgFile.exists /\ cfgFile.ours /\ Truthy(StoredKey(cfgFile)))
    => cfgFile.mode \subseteq OwnerReadWrite

(***************************************************************************)
(* Properties of the orchestrators (under Spec)                            *)
(***************************************************************************)
\* the commands ghc runs past its first check
GhcWork == {"add -A", "diff --cached", "--print", "commit"}

\* C8: when ghc starts with no unstaged, staged or untracked change it ends
\* at once with status 0: it runs the three checks of
\* hasUncommittedChanges and no staging, no staged-diff read, no AI call
\* and no commit.
C8_NoChangesExitsZero ==
  [][(At("ghc", "start") /\ ~AnyChanges(repo)) =>
       /\ calls' = calls \o HasUncommittedCalls
       /\ \A i \in 1..Len(HasUncommittedCalls) : HasUncommittedCalls[i].op \notin GhcWork
       /\ repo' = repo
       /\ Len(stack') = Len(stack) - 1
       /\ Len(stack) = 1 => exitCode' = 0
       /\ Len(stack) > 1 => stack'[Len(stack')].childOk]_vars

\* ghc, run by the user in a work tree without changes, has ended with
\* status 0 after the three checks
C8_Witness ==
  /\ cmd = "ghc"
  /\ gitWorks
  /\ ~AnyChanges(repo)
  /\ exitCode = 0
  /\ Len(calls) = 3
  /\ "No changes to commit" \in reported

\* C9: in ghc the commit call receives exactly the generated message m, for
\* any m; when the commit call succeeds ghc exits 0; and all changes are
\* staged only when nothing was staged already.
C9_CommitReceivesMessage ==
  /\ At("ghc", "showPR") =>
       /\ calls[Len(calls)].op = "commit"
       /\ calls[Len(calls)].arg.message = Top.content
       /\ calls[Len(calls)].arg.rest = <<>>
  /\ (cmd = "ghc" /\ stack = <<>> /\ "Committed successfully" \in reported)
       => exitCode = 0
  /\ At("ghc", "stage") => ~repo.staged

\* the calls to the hosting platform that change it
IsHostingMutation(c) == c.tool = "gh" /\ c.op /= "pr view"

GhpRuns == cmd = "ghp" \/ \E i \in 1..Len(stack) : stack[i].prog = "ghp"

\* C10: when ghp finds a pull request for the branch, the only change it
\* makes on the hosting platform is an edit of the PR body (no PR is
\* created, no title is set), and the temporary body file is gone when the
\* description is reported as updated.
C10_ExistingPROnlyBodyEdited ==
  /\ (GhpRuns /\ "PR already exists" \in reported) =>
       \A i \in 1..Len(calls) :
         IsHostingMutation(calls[i]) =>
           /\ calls[i].op = "pr edit"
           /\ calls[i].arg.flags = {"--body-file"}
  /\ "PR description updated" \in reported =>
       /\ EditTmpFile \notin tmpFiles
       /\ \E i \in 1..Len(calls) : calls[i].op = "pr edit"

\* ghp, run by the user on a branch with a pull request, has edited the
\* body and ended with status 0
C10_Witness ==
  /\ cmd = "ghp"
  /\ exitCode = 0
  /\ "PR already exists" \in reported
  /\ "PR description updated" \in reported
  /\ \E i \in 1..Len(calls) : calls[i].op = "pr edit"

(***************************************************************************)
(* Properties of executeClaudeCommand (under Spec)                         *)
(***************************************************************************)
\* the calls of the AI client in the log
IsClaudeCall(c) == c.tool = "claude" /\ c.op = "--print"

\* C11: whenever the call of the AI client times out, the error thrown is
\* the timeout error, whose message names the timeout the call was given
\* (90000 ms, 90 seconds), under every authentication method; it is neither
\* the 'Claude CLI not found' error nor the error of the process as it was.
C11_TimeoutNamesConfiguredTimeout ==
  \A i \in 1..Len(calls) :
    (IsClaudeCall(calls[i]) /\ calls[i].arg.outcome = "timedOut") =>
      /\ lastError.text = "Claude CLI timed out after"
      /\ lastError.seconds * 1000 = calls[i].arg.timeout
      /\ lastError.seconds = 90
      /\ lastError \notin {NotFoundError, ExitCodeError, SpawnError}

\* a call made under the CLI session timed out and the command ended with 1
C11_Witness ==
  /\ exitCode = 1
  /\ lastError /= NoError
  /\ \E i \in 1..Len(calls) :
       /\ IsClaudeCall(calls[i])
       /\ calls[i].arg.outcome = "timedOut"
       /\ calls[i].arg.method = "claude-cli"

\* C15: when the AI client ends with a nonzero exit code and did not time
\* out, the error thrown is 'Claude CLI not found' under every
\* authentication method, the CLI session included; a failure that is
\* neither a timeout nor a nonzero exit is passed on as it is.
C15_NonzeroExitIsNotFound ==
  \A i \in 1..Len(calls) :
    IsClaudeCall(calls[i]) =>
      /\ calls[i].arg.outcome = "exitCode" => lastError = NotFoundError
      /\ calls[i].arg.outcome = "failed" => lastError = SpawnError

(***************************************************************************)
(* Properties of ghpa, ghn and of the exit codes (under Spec)              *)
(***************************************************************************)
\* C12: ghpa attempts the auto-merge call only after its ghp step ended
\* with success; when that step failed ghpa exits with 1 and makes no
\* further call; a failed auto-merge call is only warned about and ghpa
\* still ends with status 0.
C12_AutoMergeBestEffort ==
  [][/\ (At("ghpa", "childDone") /\ ~Top.childOk) =>
          /\ stack' = <<>>
          /\ exitCode' = 1
          /\ calls' = calls
     /\ (Len(calls') > Len(calls) /\ calls'[Len(calls')] = MergeCall) =>
          /\ At("ghpa", "merge")
          /\ Top.childOk
          /\ calls' = Append(calls, MergeCall)
          /\ stack' = <<>>
          /\ exitCode' = 0
          /\ \/ "Auto-merge enabled" \in reported'
             \/ "Could not enable auto-merge" \in reported'
    ]_vars

\* ghpa has ended with status 0 although the auto-merge call failed
C12_Witness ==
  /\ cmd = "ghpa"
  /\ exitCode = 0
  /\ "Could not enable auto-merge" \in reported
  /\ calls[Len(calls)] = MergeCall

\* the failures of a run, as the log and the printed lines show them
MissingArgument == cmd = "ghn" /\ ~Truthy(argv)
PushFailed == "Push failed" \in reported
CommitFailed == "Commit failed" \in reported
PRCallFailed ==
  \E i \in 1..Len(calls) :
    calls[i].op \in {"pr edit", "pr create"} /\ ~calls[i].arg.ok
GenerationFailed ==
  \/ lastError /= NoError
  \/ \E i \in 1..Len(calls) : IsClaudeCall(calls[i]) /\ calls[i].arg.outcome /= "ok"

PRCallDone ==
  \E i \in 1..Len(calls) :
    calls[i].op \in {"pr edit", "pr create"} /\ calls[i].arg.ok

\* what a run of the command has done when it counts as a success
Succeeded ==
  CASE cmd = "ghc"  -> \/ "No changes to commit" \in reported
                       \/ "Committed successfully" \in reported
    [] cmd = "ghn"  -> "Switched to new branch" \in reported
    [] cmd = "ghcp" -> "Pushed" \in reported /\ ~CommitFailed
    [] cmd = "ghp"  -> "Pushed" \in reported /\ PRCallDone
    [] cmd = "ghpa" -> "Pushed" \in reported /\ PRCallDone
                         /\ calls[Len(calls)] = MergeCall

C14_NewBranch ==
  cmd = "ghn" =>
    /\ MissingArgument =>
         /\ calls = <<>>
         /\ stack = <<>> => (exitCode = 1 /\ "Usage: ghn <branch-name>" \in reported)
    /\ \A i \in 1..Len(calls) :
         /\ calls[i].op = "fetch origin" => i = 1
         /\ calls[i].op = "checkout -b" =>
              /\ i = 2
              /\ calls[1].op = "fetch origin"
    /\ "Switched to new branch" \in reported =>
         /\ Len(calls) = 2
         /\ calls[2].arg.branch = argv
         /\ calls[2].arg.base = <<"origin/main">>
         /\ calls[2].arg.rest = <<>>
    /\ "Failed to create branch" \in reported => exitCode = 1
    /\ exitCode = 0 => "Switched to new branch" \in reported

(***************************************************************************)
(* Properties of ghp and ghcp (under Spec)                                 *)
(***************************************************************************)
GhpOnStack == \E i \in 1..Len(stack) : stack[i].prog = "ghp"

\* C16: once ghp has written its temporary body file, the file is deleted
\* on every way out of ghp, a failed 'gh pr edit' or 'gh pr create'
\* included: no run of ghp ends with the file still there.
C16_TmpFileRemovedOnEveryExit ==
  ~GhpOnStack => tmpFiles = {}

\* the calls a step adds to the log
NewCalls == SubSeq(calls', Len(calls) + 1, Len(calls'))

IsPushCall(c) == c.tool = "git" /\ c.op \in {"push", "push -u origin"}

IsPRCall(c) == c.tool = "gh" /\ c.op \in {"pr view", "pr edit", "pr create"}

IsBlank(answer) == \A i \in 1..Len(answer) : IsSpace(answer[i])

\* the line a step read at the prompt
AnswerRead == calls'[Len(calls')].arg

SaveSteps == {"auth.mkdir", "auth.write", "auth.chmod"}

\* C18: on the prompt path of getAnthropicApiKey a line that is empty once
\* trimmed ends the resolution with the 'API key is required' error and
\* the config file is not written; a line with the key k in it yields
\* (prompt, k) whether or not the directory could be made, the file
\* written and its mode restricted: no failure to save aborts the
\* resolution.
C18_PromptPath ==
  [][/\ AtPc("auth.prompt") =>
          /\ calls' = Append(calls, QuestionCall(AnswerRead))
          /\ cfgFile' = cfgFile
          /\ IF IsBlank(AnswerRead)
             THEN /\ lastError' = KeyRequiredError
                  /\ Len(stack') = Len(stack) - 1
                  /\ Len(stack) = 1 => exitCode' = 1
             ELSE /\ lastError' = lastError
                  /\ Len(stack') = Len(stack)
                  /\ stack'[Len(stack)].pc = "auth.mkdir"
                  /\ stack'[Len(stack)].apiKey /= <<>>
                  /\ stack'[Len(stack)].apiKey = Trim(AnswerRead)
                  /\ ~IsSpace(Head(stack'[Len(stack)].apiKey))
                  /\ ~IsSpace(stack'[Len(stack)].apiKey[Len(stack'[Len(stack)].apiKey)])
     /\ (stack /= <<>> /\ Top.pc \in SaveSteps) =>
          /\ Len(stack') = Len(stack)
          /\ exitCode' = exitCode
          /\ lastError' = lastError
          /\ \/ /\ stack'[Len(stack)].pc \in SaveSteps
                /\ stack'[Len(stack)].apiKey = Top.apiKey
             \/ /\ stack'[Len(stack)].pc = "claude"
                /\ stack'[Len(stack)].auth = [method |-> "prompt", key |-> Top.apiKey]
     /\ (stack /= <<>> /\ Top.pc \notin SaveSteps) => cfgFile' = cfgFile
    ]_vars

\* the key typed at the prompt is returned although the file could not be
\* written
C18_Witness ==
  /\ AtPc("claude")
  /\ Top.auth = [method |-> "prompt", key |-> <<"p">>]
  /\ \E i \in 1..Len(authTrace) : authTrace[i] = Trace("write", FALSE)
  /\ calls[Len(calls)] = QuestionCall(<<" ", "p", " ">>)

(***************************************************************************)
(* Properties of the saved-credential file under two invocations at once   *)
(* (under SpecConcurrent)                                                  *)
(***************************************************************************)
\* the places in the log where invocation i wrote the file
WritesOf(i) ==
  {k \in 1..Len(calls) : calls[k].op = "writeFile" /\ calls[k].arg.pid = i}

\* invocation i was given a key at the prompt before place k of the log
PromptedBefore(i, k) ==
  \E q \in 1..(k - 1) :
    /\ calls[q].op = "question"
    /\ calls[q].arg.pid = i
    /\ ~IsBlank(calls[q].arg.answer)

\* C20: one invocation writes the saved-credential file at most once, and
\* only on its prompt path after a key that is not empty was typed; an
\* invocation that returns by the environment, the CLI session or the
\* saved config never writes it, and the file changes with a write or its
\* chmod only.  Nothing keeps two invocations from both writing it.
C20_WrittenAtMostOncePerInvocation ==
  [][/\ \A i \in Invocations :
          /\ Cardinality(WritesOf(i)') <= 1
          /\ \A k \in WritesOf(i)' : PromptedBefore(i, k)'
          /\ stack'[i].auth.method \in {"env", "claude-cli", "config"}
               => WritesOf(i)' = {}
          /\ (Truthy(envKey) \/ stack'[i].pc \in {"auth.env", "auth.probe", "auth.config"})
               => WritesOf(i)' = {}
     /\ cfgFile' /= cfgFile =>
          \E i \in Invocations :
            /\ stack[i].pc \in {"auth.write", "auth.chmod"}
            /\ stack[i].apiKey /= <<>>
            /\ stack'[i].pc /= stack[i].pc
            /\ \/ Len(calls') = Len(calls) + 1 /\ WritesOf(i)' = WritesOf(i) \cup {Len(calls')}
               \/ calls' = calls /\ cfgFile'.text = cfgFile.text
    ]_vars

\* both invocations went to the prompt, and both have written the file
C20_Witness ==
  /\ \A i \in Invocations :
       /\ stack[i].pc = "returned"
       /\ stack[i].auth.method = "prompt"
       /\ Cardinality(WritesOf(i)) = 1
  /\ Len(calls) = 4

(***************************************************************************)
(* The round trip of the saved credential (under Spec)                     *)
(***************************************************************************)
\* the places in the log where the config file was written
WritePlaces == {w \in 1..Len(calls) : calls[w] = WriteFileCall}

\* the key typed at the prompt of the resolution that wrote the file: the
\* line read just before the write, less the white space around it
KeyPersisted ==
  LET w == CHOOSE w \in WritePlaces : \A v \in WritePlaces : v <= w
  IN  Trim(calls[w - 1].arg)

\* C21: after a resolution on the prompt path has saved the key k, a later
\* resolution that finds no environment key and whose CLI-session probe
\* fails returns (config, k): it reads the file, prompts nobody and does
\* not write the file again.
C21_SavedKeyRoundTrip ==
  [][/\ (WritePlaces /= {} /\ AtPc("auth.config")) =>
          /\ ~Truthy(envKey)
          /\ calls[Len(calls)].op = "--version"
          /\ Len(stack') = Len(stack)
          /\ stack'[Len(stack)].pc = "claude"
          /\ stack'[Len(stack)].auth = [method |-> "config", key |-> KeyPersisted]
          /\ calls' = calls
          /\ cfgFile' = cfgFile
     /\ WritePlaces /= {} =>
          /\ \A w \in WritePlaces :
               /\ w > 1
               /\ calls[w - 1].op = "question"
               /\ \A q \in (w + 1)..Len(calls') : calls'[q].op \notin {"question", "writeFile"}
          /\ cfgFile' /= cfgFile => (AtPc("auth.chmod") /\ cfgFile'.text = cfgFile.text)
    ]_vars

\* ghp, whose ghc step saved the key typed at the prompt, has read that key
\* from the file for its own call of the AI client
C21_Witness ==
  /\ At("ghp", "claude")
  /\ WritePlaces /= {}
  /\ KeyPersisted = <<"\"", "\\">>
  /\ Top.auth = [method |-> "config", key |-> <<"\"", "\\">>]
  /\ authTrace = <<Trace("env", FALSE), Trace("probe", FALSE), Trace("config", TRUE)>>

====
